---- MODULE Spec2Model ----
(***************************************************************************)
(* Board-layout generator of the Catan scene                               *)
(* (src/src/components/MainStage.tsx, CatanBoard / getHexPositions /       *)
(* generateValidAssignment / Hexagon).                                     *)
(*                                                                         *)
(* JavaScript arrays are modelled as functions on 0..n-1, so that every    *)
(* index of the model is the index of the source.  Math.random() is        *)
(* modelled by the numerator n of a fraction n / RandDenom in [0, 1).      *)
(***************************************************************************)
EXTENDS Integers, Sequences, FiniteSets, TLC

VARIABLES
    mounted,     \* CatanBoard is mounted in the scene
    pc,          \* "idle", or "loop": inside generateValidAssignment's while
    attempts,    \* generateValidAssignment: let attempts
    cand,        \* the candidate built most recently (loop or fallback)
    loopCand,    \* the candidate built by the latest iteration of the while loop
    built,       \* candidates built in the current call
    validated,   \* candidates validated in the current call
    path,        \* how the current call returned: "none", "validated", "fallback"
    assignment,  \* { terrains, tokens } returned by generateValidAssignment
    hexData,     \* const hexData = getHexPositions()
    console,     \* console.warn argument lists emitted by the current call
    genCalls,    \* calls of generateValidAssignment since the mount
    renders,     \* renders of CatanBoard so far
    tables       \* the terrains, tokens and adjacencyMap locals of getHexPositions

vars == <<mounted, pc, attempts, cand, loopCand, built, validated, path,
          assignment, hexData, console, genCalls, renders, tables>>

(***************************************************************************)
(* Bounds of the model                                                     *)
(***************************************************************************)
\* Math.random() yields n / RandDenom for n in 0..RandDenom-1
RandDenom == 104
\* number of distinct random streams an attempt can draw
NumTapes == 6
\* renders of CatanBoard (mounts and re-renders) in one behaviour
MaxRenders == 2

(***************************************************************************)
(* Static tables of getHexPositions                                        *)
(***************************************************************************)
NumHexes == 19

Positions == 0 .. (NumHexes - 1)

rowCounts == [r \in 0 .. 4 |-> CASE r = 0 -> 3 [] r = 1 -> 4 [] r = 2 -> 5
                                 [] r = 3 -> 4 [] r = 4 -> 3]

\* 0x2f4f2f etc. are written in decimal
Wood   == [color |-> 3100463,  name |-> "Wood",
           texture |-> "/src/assets/hexes/forest.png"]
Wheat  == [color |-> 15323594, name |-> "Wheat",
           texture |-> "/src/assets/hexes/field.png"]
Sheep  == [color |-> 9498256,  name |-> "Sheep",
           texture |-> "/src/assets/hexes/pasture.png"]
Ore    == [color |-> 8421504,  name |-> "Ore",
           texture |-> "/src/assets/hexes/mountain.png"]
Brick  == [color |-> 13789470, name |-> "Brick",
           texture |-> "/src/assets/hexes/hill.png"]
Desert == [color |-> 16032864, name |-> "Desert",
           texture |-> "/src/assets/hexes/desert.png"]

\* a JavaScript array literal as a function on 0..n-1
ArrayOf(s) == [i \in 0 .. (Len(s) - 1) |-> s[i + 1]]

ArrLen(a) == Cardinality(DOMAIN a)

terrains ==
    ArrayOf(<<Wood, Wood, Wood, Wood, Wheat, Wheat, Wheat, Wheat,
              Sheep, Sheep, Sheep, Sheep, Ore, Ore, Ore,
              Brick, Brick, Brick, Desert>>)

tokens ==
    ArrayOf(<<2, 3, 3, 4, 4, 5, 5, 6, 6, 8, 8, 9, 9, 10, 10, 11, 11, 12>>)

\* mutant of adjacencyMap: 16 lists 12 but 12 does not list 16
adjacencyMapOneWay ==
    [p \in Positions |->
        CASE p = 0  -> <<1, 3, 4>>
          [] p = 1  -> <<0, 2, 4, 5>>
          [] p = 2  -> <<1, 5, 6>>
          [] p = 3  -> <<0, 4, 7, 8>>
          [] p = 4  -> <<0, 1, 3, 5, 8, 9>>
          [] p = 5  -> <<1, 2, 4, 6, 9, 10>>
          [] p = 6  -> <<2, 5, 10, 11>>
          [] p = 7  -> <<3, 8, 12, 13>>
          [] p = 8  -> <<3, 4, 7, 9, 13, 14>>
          [] p = 9  -> <<4, 5, 8, 10, 14, 15>>
          [] p = 10 -> <<5, 6, 9, 11, 15, 16>>
          [] p = 11 -> <<6, 10, 16, 17>>
          [] p = 12 -> <<7, 13>>
          [] p = 13 -> <<7, 8, 12, 14, 16, 17>>
          [] p = 14 -> <<8, 9, 13, 15, 17, 18>>
          [] p = 15 -> <<9, 10, 14, 18>>
          [] p = 16 -> <<10, 11, 12, 13, 17>>
          [] p = 17 -> <<11, 13, 14, 16, 18>>
          [] p = 18 -> <<14, 15, 17>>]

adjacencyMap ==
    [p \in Positions |->
        CASE p = 0  -> <<1, 3, 4>>
          [] p = 1  -> <<0, 2, 4, 5>>
          [] p = 2  -> <<1, 5, 6>>
          [] p = 3  -> <<0, 4, 7, 8>>
          [] p = 4  -> <<0, 1, 3, 5, 8, 9>>
          [] p = 5  -> <<1, 2, 4, 6, 9, 10>>
          [] p = 6  -> <<2, 5, 10, 11>>
          [] p = 7  -> <<3, 8, 12, 13>>
          [] p = 8  -> <<3, 4, 7, 9, 13, 14>>
          [] p = 9  -> <<4, 5, 8, 10, 14, 15>>
          [] p = 10 -> <<5, 6, 9, 11, 15, 16>>
          [] p = 11 -> <<6, 10, 16, 17>>
          [] p = 12 -> <<7, 13, 16>>
          [] p = 13 -> <<7, 8, 12, 14, 16, 17>>
          [] p = 14 -> <<8, 9, 13, 15, 17, 18>>
          [] p = 15 -> <<9, 10, 14, 18>>
          [] p = 16 -> <<10, 11, 12, 13, 17>>
          [] p = 17 -> <<11, 13, 14, 16, 18>>
          [] p = 18 -> <<14, 15, 17>>]

maxAttempts == 1000

(***************************************************************************)
(* The random source                                                       *)
(***************************************************************************)
\* Math.random() calls of one candidate: one per iteration of the two
\* shuffle loops (i from length-1 down to 1)
NumDraws == (ArrLen(terrains) - 1) + (ArrLen(tokens) - 1)

RECURSIVE TapeFrom(_, _)
\* a stream of k numerators starting at x (a linear congruential stream)
TapeFrom(x, k) ==
    IF k = 0 THEN <<>> ELSE <<x>> \o TapeFrom((x * 21 + 11) % RandDenom, k - 1)

Seeds == 0 .. (NumTapes - 1)

\* the random streams the model lets one candidate draw
Tape(seed) == TapeFrom(seed % RandDenom, NumDraws)

\* Math.floor(Math.random() * m) for Math.random() = n / RandDenom
FloorRandomTimes(n, m) == (n * m) \div RandDenom

(***************************************************************************)
(* generateValidAssignment: shuffles and token assignment                  *)
(***************************************************************************)
\* mutant of Swap: a[i] = a[j]; a[j] = a[i] without a temporary
SwapOverwrite(a, i, j) == [a EXCEPT ![i] = a[j]]

\* [a[i], a[j]] = [a[j], a[i]]
Swap(a, i, j) == [a EXCEPT ![i] = a[j], ![j] = a[i]]

RECURSIVE ShuffleLoop(_, _, _, _)
\* for (let i = ...; i > 0; i--) { j = floor(random() * (i + 1)); swap }
\* rnd[k] is the value the next Math.random() call yields
ShuffleLoop(a, i, rnd, k) ==
    IF i > 0
    THEN LET j == FloorRandomTimes(rnd[k], i + 1)
         IN  ShuffleLoop(Swap(a, i, j), i - 1, rnd, k + 1)
    ELSE a

\* const shuffled = [...arr]; Fisher-Yates over it, drawing rnd[k0], rnd[k0+1], ...
Shuffle(arr, rnd, k0) == ShuffleLoop(arr, ArrLen(arr) - 1, rnd, k0)

\* mutant of ShuffleEffect: const shuffled = arr, the shuffle runs on the
\* table itself
ShuffleEffectInPlace(arr, rnd, k0) ==
    [source |-> Shuffle(arr, rnd, k0), copy |-> Shuffle(arr, rnd, k0)]

\* const shuffled = [...arr] and the loop over shuffled: what the statements
\* leave in the table they read (source) and in the copy they shuffle
ShuffleEffect(arr, rnd, k0) ==
    [source |-> arr, copy |-> Shuffle(arr, rnd, k0)]

\* the value of an array read outside the array (JavaScript: undefined)
Undefined == 0 - 1

\* arr[idx], total as in JavaScript
Read(arr, idx) == IF idx \in DOMAIN arr THEN arr[idx] ELSE Undefined

\* mutant of AssignLoop: the token is read at the position index, so the
\* Desert position consumes a token slot
AssignLoopByPosition(tokenAssignments, i, tokenIndex, terrainTypes, shuffled) ==
    [tokenAssignments |->
        [p \in DOMAIN tokenAssignments |->
            IF terrainTypes[p].name # "Desert"
            THEN Read(shuffled, p) ELSE tokenAssignments[p]],
     tokenIndex |-> NumHexes]

\* mutant of AssignLoop: the Desert test is missing, every position takes
\* the next token
AssignLoopNoDesertTest(tokenAssignments, i, tokenIndex, terrainTypes, shuffled) ==
    [tokenAssignments |-> [p \in DOMAIN tokenAssignments |-> Read(shuffled, p)],
     tokenIndex |-> NumHexes]

\* mutant of AssignLoop: shuffledTokens[++tokenIndex], the index advances
\* before the read
AssignLoopPreIncrement(tokenAssignments, i, tokenIndex, terrainTypes, shuffled) ==
    [tokenAssignments |->
        [p \in DOMAIN tokenAssignments |->
            IF terrainTypes[p].name # "Desert"
            THEN Read(shuffled,
                      1 + Cardinality({q \in 0 .. (p - 1) :
                                          terrainTypes[q].name # "Desert"}))
            ELSE tokenAssignments[p]],
     tokenIndex |->
        Cardinality({q \in DOMAIN tokenAssignments :
                        terrainTypes[q].name # "Desert"})]

RECURSIVE AssignLoop(_, _, _, _, _)
\* for (let i = 0; i < 19; i++)
\*   if (shuffledTerrains[i].name !== "Desert")
\*     tokenAssignments[i] = shuffledTokens[tokenIndex++];
AssignLoop(tokenAssignments, i, tokenIndex, shuffledTerrains, shuffledTokens) ==
    IF i < NumHexes
    THEN IF shuffledTerrains[i].name # "Desert"
         THEN AssignLoop(
                  [tokenAssignments EXCEPT ![i] = Read(shuffledTokens, tokenIndex)],
                  i + 1, tokenIndex + 1, shuffledTerrains, shuffledTokens)
         ELSE AssignLoop(tokenAssignments, i + 1, tokenIndex,
                         shuffledTerrains, shuffledTokens)
    ELSE [tokenAssignments |-> tokenAssignments, tokenIndex |-> tokenIndex]

\* one candidate: the body of the while loop up to the validation (and the
\* same statements of the fallback), on the random stream rnd, reading the
\* tables as they stand
generateCandidateFrom(terrainTable, tokenTable, rnd) ==
    LET shuffledTerrains == ShuffleEffect(terrainTable, rnd, 1).copy
        shuffledTokens   == ShuffleEffect(tokenTable, rnd, ArrLen(terrainTable)).copy
        filled == AssignLoop([i \in Positions |-> 0], 0, 0,
                             shuffledTerrains, shuffledTokens)
    IN  [shuffledTerrains |-> shuffledTerrains,
         shuffledTokens   |-> shuffledTokens,
         tokenAssignments |-> filled.tokenAssignments,
         tokenIndex       |-> filled.tokenIndex]

\* the candidate built from the tables as getHexPositions declares them
generateCandidate(rnd) == generateCandidateFrom(terrains, tokens, rnd)

\* the tables after one candidate was built from tb on the stream rnd
TablesAfter(tb, rnd) ==
    [terrains     |-> ShuffleEffect(tb.terrains, rnd, 1).source,
     tokens       |-> ShuffleEffect(tb.tokens, rnd, ArrLen(tb.terrains)).source,
     adjacencyMap |-> tb.adjacencyMap]

\* return { terrains: shuffledTerrains, tokens: tokenAssignments }
Board(c) == [terrains |-> c.shuffledTerrains, tokens |-> c.tokenAssignments]

(***************************************************************************)
(* Validation functions                                                    *)
(***************************************************************************)
validateRedAdjacency(tokenAssignments, terrainTypes) ==
    \A i \in 0 .. (NumHexes - 1) :
        \/ terrainTypes[i].name = "Desert"
        \/ LET token == tokenAssignments[i]
           IN  (token = 6 \/ token = 8) =>
                   \A n \in DOMAIN adjacencyMap[i] :
                       LET adjIndex == adjacencyMap[i][n]
                       IN  terrainTypes[adjIndex].name # "Desert" =>
                               LET adjToken == tokenAssignments[adjIndex]
                               IN  ~(adjToken = 6 \/ adjToken = 8)

RECURSIVE CollectTokens(_, _, _, _)
\* resourceTokens[resource] after the grouping loop: the tokens of the
\* positions holding that resource, in position order
CollectTokens(tokenAssignments, terrainTypes, resource, i) ==
    IF i < NumHexes
    THEN (IF terrainTypes[i].name # "Desert" /\ terrainTypes[i].name = resource
          THEN <<tokenAssignments[i]>> ELSE <<>>)
         \o CollectTokens(tokenAssignments, terrainTypes, resource, i + 1)
    ELSE <<>>

\* const resourceTokens: { [resource: string]: number[] }
resourceTokens(tokenAssignments, terrainTypes) ==
    [resource \in {terrainTypes[i].name :
                      i \in {p \in 0 .. (NumHexes - 1) :
                                terrainTypes[p].name # "Desert"}} |->
        CollectTokens(tokenAssignments, terrainTypes, resource, 0)]

validateResourceDistribution(tokenAssignments, terrainTypes) ==
    LET rt == resourceTokens(tokenAssignments, terrainTypes)
        IsSix(t) == t = 6
        IsEight(t) == t = 8
    IN  \A resource \in DOMAIN rt :
            LET sixCount   == Len(SelectSeq(rt[resource], IsSix))
                eightCount == Len(SelectSeq(rt[resource], IsEight))
            IN  ~(sixCount > 1 \/ eightCount > 1)

\* mutant of validateLowNumberClustering: the threshold is off by one
validateLowNumberClusteringOffByOne(tokenAssignments, terrainTypes) ==
    LET rt == resourceTokens(tokenAssignments, terrainTypes)
        IsLow(t) == t = 2 \/ t = 3 \/ t = 12
    IN  \A resource \in DOMAIN rt :
            ~(Len(SelectSeq(rt[resource], IsLow)) > 2)

validateLowNumberClustering(tokenAssignments, terrainTypes) ==
    LET rt == resourceTokens(tokenAssignments, terrainTypes)
        IsLow(t) == t = 2 \/ t = 3 \/ t = 12
    IN  \A resource \in DOMAIN rt :
            ~(Len(SelectSeq(rt[resource], IsLow)) > 1)

\* mutant of ValidateAllRules: the third validator is left out of the condition
ValidateAllRulesWithoutLow(c) ==
    /\ validateRedAdjacency(c.tokenAssignments, c.shuffledTerrains)
    /\ validateResourceDistribution(c.tokenAssignments, c.shuffledTerrains)

\* the condition of "if (validateRedAdjacency(..) && ..)"
ValidateAllRules(c) ==
    /\ validateRedAdjacency(c.tokenAssignments, c.shuffledTerrains)
    /\ validateResourceDistribution(c.tokenAssignments, c.shuffledTerrains)
    /\ validateLowNumberClustering(c.tokenAssignments, c.shuffledTerrains)

(***************************************************************************)
(* getHexPositions: the 3-4-5-4-3 layout                                   *)
(***************************************************************************)
\* pos = [x, 0.1, rowZ] is kept in integer lattice units:
\*   x  in units of hexWidth * spacingMultiplier / 2   (= 1.8)
\*   z  in units of hexHeight * spacingMultiplier      (= 1.8 * sqrt(3))
\* startX = -(count - 1) * hexWidth * spacingMultiplier / 2
StartX(count) == 0 - (count - 1)

\* x = startX + col * hexWidth * spacingMultiplier
HexX(count, col) == StartX(count) + 2 * col

\* rowZ = (rowIndex - 2) * hexHeight * spacingMultiplier
RowZ(rowIndex) == rowIndex - 2

RECURSIVE RowLoopIndexPerRow(_, _, _, _, _, _)
\* mutant of RowLoop: the assignment is read at the column, as if the tile
\* index started again in every row
RowLoopIndexPerRow(positions, rowIndex, col, hexIndex, validTerrains, validTokens) ==
    IF rowIndex \notin DOMAIN rowCounts
    THEN positions
    ELSE IF col < rowCounts[rowIndex]
         THEN LET terrain  == validTerrains[col]
                  isDesert == terrain.name = "Desert"
                  entry == [pos |-> [x |-> HexX(rowCounts[rowIndex], col),
                                     z |-> RowZ(rowIndex)],
                            color |-> terrain.color,
                            isDesert |-> isDesert,
                            tokenNumber |-> validTokens[col],
                            texturePath |-> terrain.texture]
              IN  RowLoopIndexPerRow(Append(positions, entry), rowIndex, col + 1,
                                     hexIndex + 1, validTerrains, validTokens)
         ELSE RowLoopIndexPerRow(positions, rowIndex + 1, 0, hexIndex,
                                 validTerrains, validTokens)

RECURSIVE RowLoop(_, _, _, _, _, _)
\* rowCounts.forEach((count, rowIndex) => { for (col ...) positions.push(..) })
RowLoop(positions, rowIndex, col, hexIndex, validTerrains, validTokens) ==
    IF rowIndex \notin DOMAIN rowCounts
    THEN positions
    ELSE IF col < rowCounts[rowIndex]
         THEN LET terrain  == validTerrains[hexIndex]
                  isDesert == terrain.name = "Desert"
                  entry == [pos |-> [x |-> HexX(rowCounts[rowIndex], col),
                                     z |-> RowZ(rowIndex)],
                            color |-> terrain.color,
                            isDesert |-> isDesert,
                            tokenNumber |-> validTokens[hexIndex],
                            texturePath |-> terrain.texture]
              IN  RowLoop(Append(positions, entry), rowIndex, col + 1,
                          hexIndex + 1, validTerrains, validTokens)
         ELSE RowLoop(positions, rowIndex + 1, 0, hexIndex,
                      validTerrains, validTokens)

\* the positions array getHexPositions returns for the assignment b that
\* generateValidAssignment handed it
getHexPositions(b) == ArrayOf(RowLoop(<<>>, 0, 0, 0, b.terrains, b.tokens))

(***************************************************************************)
(* Hexagon: what one tile displays                                         *)
(***************************************************************************)
\* mutant of MathAbs: the sign is kept
MathAbsSigned(x) == x

MathAbs(x) == IF x < 0 THEN 0 - x ELSE x

\* const dotCount = 6 - Math.abs(7 - tokenNumber)
dotCount(tokenNumber) == 6 - MathAbs(7 - tokenNumber)

\* const isRed = dotCount === 5
isRed(tokenNumber) == dotCount(tokenNumber) = 5

\* Array.from({ length: n }, ...).length
ArrayFromLength(n) == IF n > 0 THEN n ELSE 0

\* <Hexagon showToken={!hex.isDesert} isDesert={hex.isDesert} .../>
Hexagon(hex) ==
    LET showToken == ~hex.isDesert
    IN  [color       |-> hex.color,
         texturePath |-> hex.texturePath,
         tokenShown  |-> showToken /\ ~hex.isDesert,
         tokenNumber |-> hex.tokenNumber,
         textColor   |-> IF isRed(hex.tokenNumber) THEN "#FF0000" ELSE "#000000",
         markers     |-> ArrayFromLength(dotCount(hex.tokenNumber))]

(***************************************************************************)
(* The state machine: renders of CatanBoard, each running                  *)
(* generateValidAssignment to completion                                   *)
(***************************************************************************)
NoCandidate == [shuffledTerrains |-> <<>>, shuffledTokens |-> <<>>,
                tokenAssignments |-> <<>>, tokenIndex |-> 0]

NoBoard == [terrains |-> <<>>, tokens |-> <<>>]

NoHexData == <<>>

\* the tables before the first call of getHexPositions declares them
NoTables == [terrains |-> <<>>, tokens |-> <<>>, adjacencyMap |-> <<>>]

\* the tables as a call of getHexPositions declares them
FreshTables ==
    [terrains |-> terrains, tokens |-> tokens, adjacencyMap |-> adjacencyMap]

\* what one pass over the loop body computes from the tables tb on the
\* random stream of seed
ComputeOutcome(tb, seed) ==
    LET c == generateCandidateFrom(tb.terrains, tb.tokens, Tape(seed))
    IN  [candidate |-> c,
         valid     |-> ValidateAllRules(c),
         hexData   |-> getHexPositions(Board(c)),
         tables    |-> TablesAfter(tb, Tape(seed))]

\* what one pass over the loop body computes on each random stream, from
\* the tables as declared
Outcome == [seed \in Seeds |-> ComputeOutcome(FreshTables, seed)]

\* the pass from the tables as they stand
OutcomeOn(tb, seed) ==
    IF tb = FreshTables THEN Outcome[seed] ELSE ComputeOutcome(tb, seed)

\* mutant of WarnMessage: the notice counts the candidates built
WarnMessageBuilt == <<"Could not generate valid Catan board after",
                      maxAttempts + 1, "attempts">>

WarnMessage == <<"Could not generate valid Catan board after", maxAttempts,
                 "attempts">>

Init ==
    /\ mounted = FALSE
    /\ pc = "idle"
    /\ attempts = 0
    /\ cand = NoCandidate
    /\ loopCand = NoCandidate
    /\ built = 0
    /\ validated = 0
    /\ path = "none"
    /\ assignment = NoBoard
    /\ hexData = NoHexData
    /\ console = <<>>
    /\ genCalls = 0
    /\ renders = 0
    /\ tables = NoTables

\* the component function starts running: hexData = getHexPositions() calls
\* generateValidAssignment (let attempts = 0)
EnterGenerator ==
    /\ pc' = "loop"
    /\ attempts' = 0
    /\ cand' = NoCandidate
    /\ loopCand' = NoCandidate
    /\ built' = 0
    /\ validated' = 0
    /\ path' = "none"
    /\ console' = <<>>
    /\ renders' = renders + 1
    /\ tables' = FreshTables

\* first render of a mounted CatanBoard
Mount ==
    /\ pc = "idle"
    /\ ~mounted
    /\ renders < MaxRenders
    /\ mounted' = TRUE
    /\ genCalls' = 1
    /\ EnterGenerator
    /\ UNCHANGED <<assignment, hexData>>

\* React renders the mounted component again: the function body runs again
Rerender ==
    /\ pc = "idle"
    /\ mounted
    /\ renders < MaxRenders
    /\ genCalls' = genCalls + 1
    /\ EnterGenerator
    /\ UNCHANGED <<mounted, assignment, hexData>>

\* mutant of Attempt: a rejected candidate does not advance the counter
AttemptNoIncrement ==
    /\ pc = "loop"
    /\ attempts < maxAttempts
    /\ \E seed \in Seeds :
          LET o == OutcomeOn(tables, seed)
          IN  /\ tables' = o.tables
              /\ cand' = o.candidate
              /\ loopCand' = o.candidate
              /\ built' = built + 1
              /\ validated' = validated + 1
              /\ IF o.valid
                 THEN /\ assignment' = Board(o.candidate)
                      /\ hexData' = o.hexData
                      /\ path' = "validated"
                      /\ pc' = "idle"
                 ELSE UNCHANGED <<assignment, hexData, path, pc>>
    /\ UNCHANGED <<mounted, attempts, console, genCalls, renders>>

\* one iteration of while (attempts < maxAttempts)
Attempt ==
    /\ pc = "loop"
    /\ attempts < maxAttempts
    /\ \E seed \in Seeds :
          LET o == OutcomeOn(tables, seed)
          IN  /\ tables' = o.tables
              /\ cand' = o.candidate
              /\ loopCand' = o.candidate
              /\ built' = built + 1
              /\ validated' = validated + 1
              /\ IF o.valid
                 THEN /\ assignment' = Board(o.candidate)
                      /\ hexData' = o.hexData
                      /\ path' = "validated"
                      /\ pc' = "idle"
                      /\ UNCHANGED attempts
                 ELSE /\ attempts' = attempts + 1
                      /\ UNCHANGED <<assignment, hexData, path, pc>>
    /\ UNCHANGED <<mounted, console, genCalls, renders>>

\* mutant of Fallback: the candidate rejected last is returned as it is
FallbackReturnsLast ==
    /\ pc = "loop"
    /\ ~(attempts < maxAttempts)
    /\ console' = Append(console, WarnMessage)
    /\ assignment' = Board(loopCand)
    /\ hexData' = getHexPositions(Board(loopCand))
    /\ path' = "fallback"
    /\ pc' = "idle"
    /\ UNCHANGED <<mounted, attempts, cand, loopCand, built, validated,
                   genCalls, renders, tables>>

\* the statements after the loop: console.warn, one more candidate, return
Fallback ==
    /\ pc = "loop"
    /\ ~(attempts < maxAttempts)
    /\ console' = Append(console, WarnMessage)
    /\ \E seed \in Seeds :
          LET o == OutcomeOn(tables, seed)
          IN  /\ tables' = o.tables
              /\ cand' = o.candidate
              /\ built' = built + 1
              /\ assignment' = Board(o.candidate)
              /\ hexData' = o.hexData
    /\ path' = "fallback"
    /\ pc' = "idle"
    /\ UNCHANGED <<mounted, attempts, loopCand, validated, genCalls, renders>>

\* navigation away: the component and its hexData are discarded
Unmount ==
    /\ pc = "idle"
    /\ mounted
    /\ mounted' = FALSE
    /\ assignment' = NoBoard
    /\ hexData' = NoHexData
    /\ genCalls' = 0
    /\ UNCHANGED <<pc, attempts, cand, loopCand, built, validated, path,
                   console, renders, tables>>

Next == Mount \/ Rerender \/ Attempt \/ Fallback \/ Unmount

Spec == Init /\ [][Next]_vars

\* a call of generateValidAssignment is synchronous: once entered it runs on
LiveSpec == Spec /\ WF_vars(Attempt) /\ WF_vars(Fallback)

TypeOK ==
    /\ mounted \in BOOLEAN
    /\ pc \in {"idle", "loop"}
    /\ attempts \in 0 .. maxAttempts
    /\ path \in {"none", "validated", "fallback"}

(***************************************************************************)
(* Properties                                                              *)
(***************************************************************************)
\* number of positions of board b holding terrain `name`
TerrainCount(b, name) ==
    Cardinality({p \in DOMAIN b.terrains : b.terrains[p].name = name})

\* number of non-Desert positions of board b holding token t
TokenCount(b, t) ==
    Cardinality({p \in DOMAIN b.tokens :
                    b.terrains[p].name # "Desert" /\ b.tokens[p] = t})

\* the entries of the adjacency map for position p, as a set
AdjacentSet(p) == {adjacencyMap[p][n] : n \in DOMAIN adjacencyMap[p]}

IsRedToken(t) == t \in {6, 8}

IsLowToken(t) == t \in {2, 3, 12}

\* C1: every returned board (validated or fallback) has 19 terrain entries
\* that are a permutation of Wood x4, Wheat x4, Sheep x4, Ore x3, Brick x3,
\* Desert x1.
C1_TerrainMultiset ==
    assignment # NoBoard =>
        /\ DOMAIN assignment.terrains = 0 .. 18
        /\ TerrainCount(assignment, "Wood") = 4
        /\ TerrainCount(assignment, "Wheat") = 4
        /\ TerrainCount(assignment, "Sheep") = 4
        /\ TerrainCount(assignment, "Ore") = 3
        /\ TerrainCount(assignment, "Brick") = 3
        /\ TerrainCount(assignment, "Desert") = 1
        /\ \A p \in 0 .. 18 :
               assignment.terrains[p] \in {Wood, Wheat, Sheep, Ore, Brick, Desert}

\* a board returned on the fallback path
C1_Witness ==
    /\ path = "fallback"
    /\ assignment # NoBoard
    /\ Cardinality(DOMAIN assignment.terrains) = 19

\* C2: in every returned board the Desert position holds token slot 0, every
\* other position holds one token, and the 18 tokens on the non-Desert
\* positions are the multiset 2,3,3,4,4,5,5,6,6,8,8,9,9,10,10,11,11,12.
C2_TokenMultiset ==
    assignment # NoBoard =>
        /\ DOMAIN assignment.tokens = 0 .. 18
        /\ \A p \in 0 .. 18 :
               IF assignment.terrains[p].name = "Desert"
               THEN assignment.tokens[p] = 0
               ELSE assignment.tokens[p] \in (2 .. 12) \ {7}
        /\ TokenCount(assignment, 2) = 1
        /\ TokenCount(assignment, 12) = 1
        /\ \A t \in {3, 4, 5, 6, 8, 9, 10, 11} : TokenCount(assignment, t) = 2

\* a fallback board whose Desert is not the last position, so that tokens
\* are placed on both sides of the skipped position
C2_Witness ==
    /\ path = "fallback"
    /\ assignment # NoBoard
    /\ \E p \in 1 .. 17 : assignment.terrains[p].name = "Desert"

\* C3: a board returned on the non-fallback path has no two map-adjacent
\* positions both holding 6 or 8, no terrain type with two 6s or two 8s, and
\* no terrain type with two tokens of {2, 3, 12}.
C3_ValidatedBoardIsFair ==
    (path = "validated" /\ assignment # NoBoard) =>
        /\ \A p \in 0 .. 18 : \A q \in AdjacentSet(p) :
               ~(IsRedToken(assignment.tokens[p]) /\ IsRedToken(assignment.tokens[q]))
        /\ \A p, q \in 0 .. 18 :
               (p # q /\ assignment.terrains[p].name = assignment.terrains[q].name) =>
                   /\ ~(assignment.tokens[p] = 6 /\ assignment.tokens[q] = 6)
                   /\ ~(assignment.tokens[p] = 8 /\ assignment.tokens[q] = 8)
                   /\ ~(IsLowToken(assignment.tokens[p]) /\ IsLowToken(assignment.tokens[q]))

\* a validated board returned after at least one candidate was rejected
C3_Witness ==
    /\ path = "validated"
    /\ assignment # NoBoard
    /\ validated > 1

\* two hexes of the layout share an edge: their centres are one lattice step
\* apart (distance hexWidth * spacingMultiplier; in the integer units of pos,
\* dx^2 + 3 * dz^2 = 4)
SharesEdge(a, b) ==
    LET dx == a.x - b.x
        dz == a.z - b.z
    IN  dx * dx + 3 * dz * dz = 4

\* C4: for every position p the adjacency map's entry is exactly the set of
\* positions whose hexes share an edge with hex p in the 3-4-5-4-3 layout that
\* getHexPositions places.
C4_AdjacencyIsEdgeSharing ==
    hexData # NoHexData =>
        \A p \in 0 .. 18 :
            AdjacentSet(p) =
                {q \in 0 .. 18 : SharesEdge(hexData[p].pos, hexData[q].pos)}

\* C5: the adjacency map is symmetric: q is listed for p exactly when p is
\* listed for q.  The table is static, so this is stated of every state of the
\* scene, idle or inside the generator.
C5_AdjacencySymmetric ==
    pc \in {"idle", "loop"} =>
        \A p, q \in 0 .. 18 : (q \in AdjacentSet(p)) <=> (p \in AdjacentSet(q))

\* a candidate the loop rejected with red tokens on a pair of positions that
\* list each other
C5_Witness ==
    /\ pc = "loop"
    /\ loopCand # NoCandidate
    /\ \E p, q \in 0 .. 18 :
          /\ q \in AdjacentSet(p)
          /\ p \in AdjacentSet(q)
          /\ IsRedToken(loopCand.tokenAssignments[p])
          /\ IsRedToken(loopCand.tokenAssignments[q])

\* C6 (as claimed): on the fallback path the returned board is the candidate
\* the retry loop built and rejected in its final attempt, and no candidate is
\* built after the loop.
C6_FallbackReturnsLastCandidate ==
    (path = "fallback" /\ mounted) =>
        /\ assignment = Board(loopCand)
        /\ built = validated

\* C6 (amended): on the fallback path the 1000 candidates of the loop were
\* all validated and rejected, the candidate of the final attempt is
\* discarded, and the returned board is one further candidate (the 1001st
\* built in the call) from a fresh shuffle of terrains and tokens, returned
\* without validation.
C6_FallbackBuildsFreshCandidate ==
    (path = "fallback" /\ mounted) =>
        /\ validated = 1000
        /\ built = 1001
        /\ ~ValidateAllRules(loopCand)
        /\ assignment = Board(cand)
        /\ \E seed \in Seeds : cand = generateCandidate(Tape(seed))

\* a fallback return whose board differs from the last candidate of the loop
C6_Witness ==
    /\ path = "fallback"
    /\ mounted
    /\ assignment # Board(loopCand)

\* C7: a call emits the console.warn notice exactly once if it ends on the
\* fallback path and never if it returns a validated board (nor while it is
\* still in the loop); the notice reports 1000 attempts.
C7_WarnOnceOnFallback ==
    /\ path = "fallback" =>
           /\ Len(console) = 1
           /\ console[1][2] = 1000
           /\ console[1][2] = attempts
    /\ path = "validated" => console = <<>>
    /\ pc = "loop" => console = <<>>

\* a call that returned on the fallback path with its notice emitted
C7_Witness ==
    /\ path = "fallback"
    /\ pc = "idle"
    /\ console # <<>>

\* C8: every call of generateValidAssignment returns a board; it validates at
\* most 1000 candidates, its counter never passes 1000, and no read leaves
\* the token table (token index at most 17 at each read, no undefined token
\* placed) or the position range of the adjacency, terrain and token tables.
C8_TerminatesWithinBound ==
    /\ [](/\ validated <= 1000
          /\ attempts <= 1000
          /\ cand # NoCandidate =>
                 /\ cand.tokenIndex - 1 <= 17
                 /\ \A p \in 0 .. 18 : cand.tokenAssignments[p] # Undefined
          /\ \A p \in 0 .. 18 : AdjacentSet(p) \subseteq 0 .. 18)
    /\ (pc = "loop") ~> (pc = "idle" /\ path # "none" /\ assignment # NoBoard)

\* a call that returned after validating all 1000 candidates of its budget
C8_Witness ==
    /\ pc = "idle"
    /\ path = "fallback"
    /\ validated = 1000
    /\ assignment # NoBoard

\* C9 (as claimed): while CatanBoard stays mounted with a board on display, no
\* step invokes the generator again or changes the displayed board.
C9_GeneratedOncePerMount ==
    [][(mounted /\ mounted' /\ hexData # NoHexData) =>
           (genCalls' = genCalls /\ hexData' = hexData)]_vars

\* C10: for every token shown on a tile the number of pip markers drawn is
\* 6 - |7 - t| (t - 1 up to 7, 13 - t from 7 on; 2 gives 1, 6 and 8 give 5,
\* 12 gives 1), it lies in 1..5, and the token is drawn red exactly when the
\* count is 5, which is exactly when t is 6 or 8.
C10_PipCount ==
    hexData # NoHexData =>
        \A k \in 0 .. 18 :
            LET tile == Hexagon(hexData[k])
                t    == hexData[k].tokenNumber
            IN  tile.tokenShown =>
                    /\ t <= 7 => tile.markers = t - 1
                    /\ t >= 7 => tile.markers = 13 - t
                    /\ tile.markers \in 1 .. 5
                    /\ t = 2 => tile.markers = 1
                    /\ t = 12 => tile.markers = 1
                    /\ t \in {6, 8} => tile.markers = 5
                    /\ (tile.textColor = "#FF0000") <=> (tile.markers = 5)
                    /\ (tile.textColor = "#FF0000") <=> (t \in {6, 8})
                    /\ isRed(t) <=> (t \in {6, 8})

\* a displayed board showing red tokens and the extreme tokens 2 and 12
C10_Witness ==
    /\ hexData # NoHexData
    /\ \E k \in 0 .. 18 : Hexagon(hexData[k]).tokenShown /\ hexData[k].tokenNumber = 2
    /\ \E k \in 0 .. 18 : Hexagon(hexData[k]).tokenShown /\ hexData[k].tokenNumber = 12
    /\ \E k \in 0 .. 18 :
          /\ Hexagon(hexData[k]).tokenShown
          /\ hexData[k].tokenNumber = 8
          /\ Hexagon(hexData[k]).textColor = "#FF0000"

\* number of non-Desert positions of candidate c before position p
NonDesertBefore(c, p) ==
    Cardinality({q \in 0 .. (p - 1) : c.shuffledTerrains[q].name # "Desert"})

\* C11: in every candidate the k-th non-Desert position (in increasing
\* position index) holds shuffledTokens[k]; every read uses a token index of at
\* most 17 and exactly 18 tokens are consumed, wherever the Desert falls.
C11_TokensInShuffledOrder ==
    cand # NoCandidate =>
        /\ cand.tokenIndex = 18
        /\ DOMAIN cand.shuffledTokens = 0 .. 17
        /\ \A p \in 0 .. 18 :
               cand.shuffledTerrains[p].name # "Desert" =>
                   /\ NonDesertBefore(cand, p) <= 17
                   /\ cand.tokenAssignments[p] =
                          cand.shuffledTokens[NonDesertBefore(cand, p)]

\* a candidate whose Desert lies strictly inside the board, with tokens
\* placed before and after it
C11_Witness ==
    /\ cand # NoCandidate
    /\ \E d \in 1 .. 17 :
          /\ cand.shuffledTerrains[d].name = "Desert"
          /\ cand.tokenAssignments[d - 1] = cand.shuffledTokens[d - 1]
          /\ cand.tokenAssignments[d + 1] = cand.shuffledTokens[d]

\* candidate c passes the three predicates
PassesAllThree(c) ==
    /\ validateRedAdjacency(c.tokenAssignments, c.shuffledTerrains)
    /\ validateResourceDistribution(c.tokenAssignments, c.shuffledTerrains)
    /\ validateLowNumberClustering(c.tokenAssignments, c.shuffledTerrains)

\* C12: generateValidAssignment returns the first candidate that passes all
\* three predicates, at once: the candidates before it in the call were each
\* rejected (attempts counts them), the loop goes on only past a rejected
\* candidate, nothing is built after the acceptance, and the fallback is
\* taken only after exactly 1000 candidates were validated and rejected.
C12_FirstValidCandidateReturned ==
    /\ [](path = "validated" =>
              /\ PassesAllThree(cand)
              /\ mounted => assignment = Board(cand)
              /\ validated = attempts + 1
              /\ built = validated)
    /\ [](pc = "loop" => (validated = attempts /\ built = attempts))
    /\ [](path = "fallback" => (attempts = 1000 /\ validated = 1000))
    /\ [][(pc = "loop" /\ validated' = validated + 1) =>
              IF PassesAllThree(cand')
              THEN pc' = "idle" /\ path' = "validated" /\ assignment' = Board(cand')
              ELSE pc' = "loop" /\ attempts' = attempts + 1
                   /\ assignment' = assignment]_vars
    /\ [][(pc = "loop" /\ path' = "fallback") =>
              (attempts = 1000 /\ validated = 1000)]_vars

\* a call that returned a validated candidate after rejecting earlier ones
C12_Witness ==
    /\ path = "validated"
    /\ attempts >= 2
    /\ validated = attempts + 1
    /\ PassesAllThree(cand)

\* C13: no attempt (accepted, rejected or fallback) changes the static tables:
\* from the first call on, the terrain list, the token list and the adjacency
\* map hold their declared contents in their declared order; the shuffles and
\* the token assignment act on per-attempt copies only.
C13_TablesUnchanged ==
    renders > 0 =>
        /\ tables.terrains = terrains
        /\ tables.tokens = tokens
        /\ tables.adjacencyMap = adjacencyMap
        /\ \A p \in 0 .. 16 : tables.tokens[p] <= tables.tokens[p + 1]
        /\ tables.terrains[18] = Desert

\* a call that went through all 1000 rejected attempts and the fallback, with
\* a returned copy ordered differently from the tables
C13_Witness ==
    /\ path = "fallback"
    /\ built = 1001
    /\ tables.terrains = terrains
    /\ cand.shuffledTerrains # terrains
    /\ cand.shuffledTokens # tokens

\* row and column of tile k when the rows of 3, 4, 5, 4, 3 are taken in
\* row-major order
RowOfTile(k) ==
    IF k <= 2 THEN 0 ELSE IF k <= 6 THEN 1 ELSE IF k <= 11 THEN 2
    ELSE IF k <= 15 THEN 3 ELSE 4

ColOfTile(k) ==
    k - (CASE RowOfTile(k) = 0 -> 0 [] RowOfTile(k) = 1 -> 3
           [] RowOfTile(k) = 2 -> 7 [] RowOfTile(k) = 3 -> 12
           [] RowOfTile(k) = 4 -> 16)

\* C14: getHexPositions hands the renderer exactly 19 tile entries; the k-th
\* entry (rows of 3, 4, 5, 4, 3 in row-major order) carries the terrain
\* (colour, texture, Desert flag) and the token of the returned assignment at
\* position k, and a token marker is displayed exactly on the non-Desert tiles.
C14_TilesCarryAssignment ==
    hexData # NoHexData =>
        /\ DOMAIN hexData = 0 .. 18
        /\ \A k \in 0 .. 18 :
               /\ hexData[k].pos.z = RowOfTile(k) - 2
               /\ hexData[k].pos.x =
                      2 * ColOfTile(k) - (rowCounts[RowOfTile(k)] - 1)
               /\ hexData[k].color = assignment.terrains[k].color
               /\ hexData[k].texturePath = assignment.terrains[k].texture
               /\ hexData[k].isDesert <=> (assignment.terrains[k].name = "Desert")
               /\ hexData[k].tokenNumber = assignment.tokens[k]
               /\ Hexagon(hexData[k]).tokenNumber = assignment.tokens[k]
               /\ Hexagon(hexData[k]).color = assignment.terrains[k].color
               /\ Hexagon(hexData[k]).tokenShown <=>
                      (assignment.terrains[k].name # "Desert")

\* a displayed board whose Desert tile lies inside a row and shows no token,
\* while its neighbours in the row show theirs
C14_Witness ==
    /\ hexData # NoHexData
    /\ \E k \in 1 .. 17 :
          /\ assignment.terrains[k].name = "Desert"
          /\ ~Hexagon(hexData[k]).tokenShown
          /\ Hexagon(hexData[k - 1]).tokenShown
          /\ Hexagon(hexData[k + 1]).tokenShown
          /\ hexData[k + 1].tokenNumber = assignment.tokens[k + 1]

\* validateRedAdjacency without its two Desert tests
RedAdjacencyWithoutSkip(tokenAssignments) ==
    \A i \in 0 .. 18 :
        IsRedToken(tokenAssignments[i]) =>
            \A adjIndex \in AdjacentSet(i) : ~IsRedToken(tokenAssignments[adjIndex])

\* C15: in every candidate the Desert position's token slot holds 0, neither
\* a red token (6, 8) nor a low token (2, 3, 12), and validateRedAdjacency
\* gives the result it would give without its skips of Desert positions and
\* Desert neighbours.
C15_DesertSkipIsRedundant ==
    cand # NoCandidate =>
        /\ \A p \in 0 .. 18 :
               cand.shuffledTerrains[p].name = "Desert" =>
                   /\ cand.tokenAssignments[p] = 0
                   /\ ~IsRedToken(cand.tokenAssignments[p])
                   /\ ~IsLowToken(cand.tokenAssignments[p])
        /\ validateRedAdjacency(cand.tokenAssignments, cand.shuffledTerrains)
               <=> RedAdjacencyWithoutSkip(cand.tokenAssignments)

\* a candidate with a red token next to the Desert position, which passes the
\* red-adjacency test: the skip of a Desert neighbour is taken
C15_Witness ==
    /\ cand # NoCandidate
    /\ validateRedAdjacency(cand.tokenAssignments, cand.shuffledTerrains)
    /\ \E p \in 0 .. 18 : \E q \in AdjacentSet(p) :
          /\ IsRedToken(cand.tokenAssignments[p])
          /\ cand.shuffledTerrains[q].name = "Desert"

====
